---- MODULE Spec2Model ----
(***************************************************************************)
(* A model of the db-explorer MCP server (PgProbe).                        *)
(*                                                                         *)
(*   DatabaseManager (database.ts)  : pool, config, connect, disconnect,   *)
(*                                    queryReadOnly, query,                *)
(*                                    ensureConnected                      *)
(*   QueryTools (tools/query.ts)    : validateReadOnly, ensureLimit,       *)
(*                                    extractWarnings and the SQL tools    *)
(*   OptimizationTools              : suggestIndexes, analyzePlanNode,     *)
(*   (tools/optimization.ts)          extractColumnsFromFilter,            *)
(*                                    getSlowQueries, getDatabaseHealth,   *)
(*                                    catalog reports                      *)
(*   index.ts                       : the tool handlers (try / catch ->    *)
(*                                    errorResult) and the handler of the  *)
(*                                    resource db://overview               *)
(*                                                                         *)
(* Node runs one continuation at a time, so one action is the code between *)
(* two awaits.  A continuation that touches no shared state (building the  *)
(* result of a tool method, formatting the response in the handler) is     *)
(* merged into the step that makes it runnable; a continuation that reads  *)
(* or writes this.pool / this.config, or talks to a pg client, is a step   *)
(* of its own.  The pg library is the environment: whether a pool.connect  *)
(* or a client.query succeeds is an input of the step that awaits it.      *)
(*                                                                         *)
(* SQL text is a sequence of characters, each a string.  The pure          *)
(* functions (validateReadOnly, ensureLimit, the two plan walks) have      *)
(* specifications of their own, whose initial states range over generated  *)
(* arguments.                                                              *)
(***************************************************************************)
EXTENDS Integers, Sequences, FiniteSets, TLC

\* ---------------------------------------------------------------- bounds
\* Requests (tool invocations, resource reads, direct calls of the manager)
\* that can be in flight at once.
NumReq == 2
\* Pools created in one behaviour (new Pool(...) calls).
MaxPools == 2

\* ------------------------------------------------------ program constants
\* PoolConfig.max
PoolMax == 5
\* the number of queryReadOnly calls handed to Promise.all
HealthFanOut == 4

\* Schemas the database lists to the database-overview resource.
MaxSchemas == 2

\* Pieces a generated SQL text is made of (validateReadOnly's inputs).
MaxPieces == 5
\* Nodes of a generated plan tree.
MaxNodes == 4

VARIABLES
    pool,     \* DatabaseManager.pool   : 0 (null) or the id of a pool
    config,   \* DatabaseManager.config : "null" or a ConnectionConfig
    pools,    \* the pg Pool objects created so far, by id
    req,      \* the tool invocations and resource reads in flight, by request slot
    sql,      \* the text handed to validateReadOnly
    verdict,  \* its outcome: -1 not called yet, 0 returned, n > 0 threw on pattern n
    arg,      \* the arguments of the pure function under study (<<>>: none)
    res       \* what it returned

vars == <<pool, config, pools, req, sql, verdict, arg, res>>

Req == 1..NumReq
PoolId == 1..MaxPools
Configs == {"cfgA", "cfgB"}

\* ------------------------------------------------------------------ tools
ConnTools == {"connect", "disconnect", "connection_status"}
\* tools whose handler passes caller-supplied SQL on
SqlTools == {"run_query", "explain_query", "query_cost", "suggest_indexes"}
\* tools that make one queryReadOnly call with a fixed catalog query
PlainTools == {"list_schemas", "list_tables", "list_views", "describe_table",
               "get_foreign_keys", "list_indexes", "get_constraints",
               "table_stats", "unused_indexes", "duplicate_indexes",
               "table_bloat"}
DataTools == SqlTools \cup PlainTools \cup {"slow_queries", "database_health"}
\* the resource registered with server.resource
Overview == "database-overview"

\* the message texts, by error kind
NotConnectedMsg == "Not connected to any database. Use the 'connect' tool first."
ForbiddenMsg == "Query contains forbidden operation."
ExtensionMsg == "pg_stat_statements extension is not available."
\* errors raised by pg
ConnectionFailure == "ConnectionFailure"
QueryFailure == "QueryFailure"
RollbackFailure == "RollbackFailure"
EndTwice == "Called end on pool more than once"
\* raised by the runtime on `plan["Plan"]` with plan undefined
TypeErrorMsg == "Cannot read properties of undefined (reading 'Plan')"

\* ======================================================================
\* QueryTools.validateReadOnly
\* ======================================================================
Lower == <<"a","b","c","d","e","f","g","h","i","j","k","l","m",
           "n","o","p","q","r","s","t","u","v","w","x","y","z">>
Upper == <<"A","B","C","D","E","F","G","H","I","J","K","L","M",
           "N","O","P","Q","R","S","T","U","V","W","X","Y","Z">>
Digits == {"0","1","2","3","4","5","6","7","8","9"}

\* the /i flag: letters compare by their upper-case form
ToUpper(c) ==
    IF \E i \in 1..26 : Lower[i] = c
    THEN Upper[CHOOSE i \in 1..26 : Lower[i] = c]
    ELSE c

\* \w of a JavaScript regular expression
IsWordChar(c) ==
    \/ \E i \in 1..26 : c = Lower[i] \/ c = Upper[i]
    \/ c \in Digits
    \/ c = "_"

\* A text is a sequence of characters, each a string. A character that is
\* neither printable ASCII nor one of \t, \n, \f, \r is written as its code
\* point: "U+2028" is the one character LINE SEPARATOR, "U+000B" is VT.
\* The characters `.` does not match, where `$` matches under the m flag:
\* the line terminators of ECMAScript (LF, CR, LINE SEPARATOR, PARAGRAPH
\* SEPARATOR)
LineTerminators == {"\n", "\r", "U+2028", "U+2029"}

\* the three patterns of `forbidden`, in order
forbidden ==
    << { <<"I","N","S","E","R","T">>, <<"U","P","D","A","T","E">>,
         <<"D","E","L","E","T","E">>, <<"D","R","O","P">>,
         <<"A","L","T","E","R">>, <<"C","R","E","A","T","E">>,
         <<"T","R","U","N","C","A","T","E">>, <<"G","R","A","N","T">>,
         <<"R","E","V","O","K","E">> },
       { <<"C","O","P","Y">> },
       { <<"V","A","C","U","U","M">>, <<"R","E","I","N","D","E","X">>,
         <<"C","L","U","S","T","E","R">> } >>

Keywords == forbidden[1] \cup forbidden[2] \cup forbidden[3]

\* s from its n-th character on
From(s, n) == SubSeq(s, n, Len(s))

\* what `.*$` leaves of a text that starts at a `--`: the rest from the first
\* line terminator on (the terminator is kept), or nothing
RECURSIVE RestOfLine(_)
RestOfLine(s) ==
    IF s = <<>> \/ Head(s) \in LineTerminators THEN s ELSE RestOfLine(Tail(s))

\* sql.replace(/--.*$/gm, "")
RECURSIVE StripLineComments(_)
StripLineComments(s) ==
    IF s = <<>> THEN <<>>
    ELSE IF Len(s) >= 2 /\ s[1] = "-" /\ s[2] = "-"
         THEN StripLineComments(RestOfLine(s))
         ELSE <<Head(s)>> \o StripLineComments(Tail(s))

\* .replace(/\/\*[\s\S]*?\*\//g, ""): a `/*` is removed with everything up to
\* the first `*/` after it; a `/*` with no `*/` after it stays
RECURSIVE StripBlockComments(_)
StripBlockComments(s) ==
    IF s = <<>> THEN <<>>
    ELSE IF /\ Len(s) >= 4 /\ s[1] = "/" /\ s[2] = "*"
            /\ \E j \in 3..(Len(s) - 1) : s[j] = "*" /\ s[j + 1] = "/"
         THEN LET j == CHOOSE k \in 3..(Len(s) - 1) :
                          /\ s[k] = "*" /\ s[k + 1] = "/"
                          /\ \A m \in 3..(k - 1) : ~(s[m] = "*" /\ s[m + 1] = "/")
              IN  StripBlockComments(From(s, j + 2))
         ELSE <<Head(s)>> \o StripBlockComments(Tail(s))

\* const cleaned = ...
Cleaned(s) == StripBlockComments(StripLineComments(s))

\* \b(kw)\b matches t at position k, letters compared case-insensitively
WordAt(t, k, kw) ==
    /\ k + Len(kw) - 1 <= Len(t)
    /\ \A i \in 1..Len(kw) : ToUpper(t[k + i - 1]) = kw[i]
    /\ (k = 1 \/ ~IsWordChar(t[k - 1]))
    /\ (k + Len(kw) - 1 = Len(t) \/ ~IsWordChar(t[k + Len(kw)]))

\* pattern.test(cleaned), for the pattern with alternatives kws
PatternTest(kws, t) == \E kw \in kws : \E k \in 1..Len(t) : WordAt(t, k, kw)

\* validateReadOnly(sql): 0 when it returns, else the index of the first
\* pattern that matched (it throws, naming pattern.source)
validateReadOnly(s) ==
    LET cleaned == Cleaned(s) IN
    IF PatternTest(forbidden[1], cleaned) THEN 1
    ELSE IF PatternTest(forbidden[2], cleaned) THEN 2
    ELSE IF PatternTest(forbidden[3], cleaned) THEN 3
    ELSE 0

\* ======================================================================
\* QueryTools.ensureLimit
\* ======================================================================
\* the characters String.prototype.trim removes and \s matches: the white
\* space of ECMAScript (TAB, VT, FF, ZERO WIDTH NO-BREAK SPACE and the space
\* separators of Unicode) and its line terminators
Whitespace ==
    {"\t", "U+000B", "\f", "U+FEFF",
     " ", "U+00A0", "U+1680", "U+2000", "U+2001", "U+2002", "U+2003", "U+2004",
     "U+2005", "U+2006", "U+2007", "U+2008", "U+2009", "U+200A", "U+202F",
     "U+205F", "U+3000"} \cup LineTerminators

RECURSIVE TrimStart(_)
TrimStart(s) ==
    IF s # <<>> /\ Head(s) \in Whitespace THEN TrimStart(Tail(s)) ELSE s

RECURSIVE TrimEnd(_)
TrimEnd(s) ==
    IF s # <<>> /\ s[Len(s)] \in Whitespace
    THEN TrimEnd(SubSeq(s, 1, Len(s) - 1)) ELSE s

\* sql.trim()
Trim(s) == TrimEnd(TrimStart(s))

\* .replace(/;$/, ""): without the m flag `$` is the end of the text
StripSemicolon(s) ==
    IF s # <<>> /\ s[Len(s)] = ";" THEN SubSeq(s, 1, Len(s) - 1) ELSE s

\* /^\s*SELECT/i.test(t)
IsSelect(t) ==
    LET u == TrimStart(t) IN
    /\ Len(u) >= 6
    /\ \A i \in 1..6 : ToUpper(u[i]) = <<"S","E","L","E","C","T">>[i]

\* /\bLIMIT\b/i.test(t)
HasLimit(t) == \E k \in 1..Len(t) : WordAt(t, k, <<"L","I","M","I","T">>)

\* `${limit}` for a non-negative integer: its decimal digits
DigitChar == <<"0","1","2","3","4","5","6","7","8","9">>
RECURSIVE DecStr(_)
DecStr(n) ==
    IF n < 10 THEN <<DigitChar[n + 1]>>
    ELSE DecStr(n \div 10) \o <<DigitChar[(n % 10) + 1]>>

\* ensureLimit(sql, limit)
ensureLimit(s, limit) ==
    LET trimmed == StripSemicolon(Trim(s)) IN
    IF IsSelect(trimmed) /\ ~HasLimit(trimmed)
    THEN trimmed \o <<" ","L","I","M","I","T"," ">> \o DecStr(limit)
    ELSE trimmed

\* ======================================================================
\* Query plans
\* ======================================================================
\* A plan object of EXPLAIN (FORMAT JSON) is a function from its keys to
\* their values; a key it lacks reads as undefined (and is written
\* "undefined" where a template or a suggestion's table takes it). Texts are
\* sequences of characters, "Node Type" is compared as a whole.
NoKeys == [k \in {} |-> 0]
Has(o, k) == k \in DOMAIN o

\* `plan["Plan"] ?? plan`
Unwrap(plan) == IF Has(plan, "Plan") THEN plan["Plan"] ELSE plan

\* `o["Node Type"] as string`
NodeTypeOf(o) == IF Has(o, "Node Type") THEN o["Node Type"] ELSE "undefined"

\* `(o[k] as number) ?? 0`
NumberOr0(o, k) == IF Has(o, k) THEN o[k] ELSE 0

\* `${o[k]}` in a template
UndefinedText == <<"u","n","d","e","f","i","n","e","d">>
Interpolated(o, k) == IF Has(o, k) THEN o[k] ELSE UndefinedText

\* o["Plans"] when it is an array, else nothing to iterate over
Children(o) == IF Has(o, "Plans") THEN o["Plans"] ELSE <<>>

\* what a loop of pushes over a list of children leaves, given what the
\* call on each child pushed
RECURSIVE Concat(_)
Concat(ss) == IF ss = <<>> THEN <<>> ELSE Head(ss) \o Concat(Tail(ss))

\* ======================================================================
\* QueryTools.extractWarnings
\* ======================================================================
\* A warning is its template (named by its fixed first words, with the node
\* type filled in) and the values interpolated into it.
Warning(text, relation, n) == [text |-> text, relation |-> relation, n |-> n]

\* (thresholds compared with >=)
NodeWarnings_NonStrict(innerPlan) ==
    LET nodeType == NodeTypeOf(innerPlan)
        rows == NumberOr0(innerPlan, "Plan Rows")
        cost == NumberOr0(innerPlan, "Total Cost")
    IN  (IF nodeType = "Seq Scan" /\ rows >= 10000
         THEN <<Warning("Sequential scan on",
                        Interpolated(innerPlan, "Relation Name"), rows)>>
         ELSE <<>>)
        \o (IF nodeType = "Nested Loop" /\ rows >= 50000
            THEN <<Warning("Nested Loop join producing", <<>>, rows)>>
            ELSE <<>>)
        \o (IF (nodeType = "Sort" \/ nodeType = "Hash") /\ cost >= 10000
            THEN <<Warning(IF nodeType = "Sort" THEN "High-cost Sort operation"
                           ELSE "High-cost Hash operation", <<>>, cost)>>
            ELSE <<>>)

\* the three rules of extractWarnings on the node it reads
NodeWarnings(innerPlan) ==
    LET nodeType == NodeTypeOf(innerPlan)
        rows == NumberOr0(innerPlan, "Plan Rows")
        cost == NumberOr0(innerPlan, "Total Cost")
    IN  (IF nodeType = "Seq Scan" /\ rows > 10000
         THEN <<Warning("Sequential scan on",
                        Interpolated(innerPlan, "Relation Name"), rows)>>
         ELSE <<>>)
        \o (IF nodeType = "Nested Loop" /\ rows > 50000
            THEN <<Warning("Nested Loop join producing", <<>>, rows)>>
            ELSE <<>>)
        \o (IF (nodeType = "Sort" \/ nodeType = "Hash") /\ cost > 10000
            THEN <<Warning(IF nodeType = "Sort" THEN "High-cost Sort operation"
                           ELSE "High-cost Hash operation", <<>>, cost)>>
            ELSE <<>>)

\* (a walk that goes no further below a node that produced a warning)
RECURSIVE extractWarnings_StopAtWarning(_)
extractWarnings_StopAtWarning(plan) ==
    LET innerPlan == Unwrap(plan)
        plans == Children(innerPlan)
    IN  IF NodeWarnings(innerPlan) # <<>> THEN NodeWarnings(innerPlan)
        ELSE Concat([i \in 1..Len(plans) |->
                        extractWarnings_StopAtWarning(plans[i])])

\* extractWarnings(plan, warnings): what it pushes onto warnings
RECURSIVE extractWarnings(_)
extractWarnings(plan) ==
    LET innerPlan == Unwrap(plan)
        plans == Children(innerPlan)
    IN  NodeWarnings(innerPlan)
        \o Concat([i \in 1..Len(plans) |-> extractWarnings(plans[i])])

\* the objects extractWarnings reads "Node Type" of, in the order of the calls
RECURSIVE WarningsExamined(_)
WarningsExamined(plan) ==
    LET innerPlan == Unwrap(plan)
        plans == Children(innerPlan)
    IN  <<innerPlan>>
        \o Concat([i \in 1..Len(plans) |-> WarningsExamined(plans[i])])

\* ======================================================================
\* OptimizationTools.suggestIndexes
\* ======================================================================
\* a match of /\((\w+)\s*[=<>!]+/ that starts at position i of the filter:
\* the positions where its (\w+) can end (at most one: the character after
\* it is no word character)
ColumnEnds(f, i) ==
    IF f[i] # "(" THEN {}
    ELSE {j \in (i + 1)..Len(f) :
            /\ \A k \in (i + 1)..j : IsWordChar(f[k])
            /\ \E m \in (j + 1)..Len(f) :
                  /\ \A k \in (j + 1)..(m - 1) : f[k] \in Whitespace
                  /\ f[m] \in {"=", "<", ">", "!"}}

\* the regex.exec loop from position i on: a match holds one "(", its first
\* character, so the matches are those of every position, left to right
RECURSIVE ColumnsFrom(_, _, _)
ColumnsFrom(f, i, columns) ==
    IF i > Len(f) THEN columns
    ELSE IF ColumnEnds(f, i) = {} THEN ColumnsFrom(f, i + 1, columns)
    ELSE LET col == SubSeq(f, i + 1, CHOOSE j \in ColumnEnds(f, i) : TRUE)
         IN  IF \E x \in DOMAIN columns : columns[x] = col
             THEN ColumnsFrom(f, i + 1, columns)
             ELSE ColumnsFrom(f, i + 1, Append(columns, col))

extractColumnsFromFilter(filter) == ColumnsFrom(filter, 1, <<>>)

\* k.replace(/.*\./, ""): the leftmost start from which a "." is reached
\* without crossing a line terminator, up to the last such "."
DotsFrom(k, p) ==
    {q \in p..Len(k) : k[q] = "." /\ \A x \in p..(q - 1) : k[x] \notin LineTerminators}
StripQualifier(k) ==
    LET starts == {p \in 1..Len(k) : DotsFrom(k, p) # {}} IN
    IF starts = {} THEN k
    ELSE LET p == CHOOSE a \in starts : \A b \in starts : a <= b
             q == CHOOSE a \in DotsFrom(k, p) : \A b \in DotsFrom(k, p) : b <= a
         IN  SubSeq(k, 1, p - 1) \o SubSeq(k, q + 1, Len(k))

\* .replace(/ (ASC|DESC)/i, ""): the leftmost " ASC" or " DESC", in any case
DirectionAt(k, p, word) ==
    /\ p + Len(word) - 1 <= Len(k)
    /\ \A i \in 1..Len(word) : ToUpper(k[p + i - 1]) = word[i]
StripDirection(k) ==
    LET asc == <<" ","A","S","C">>
        desc == <<" ","D","E","S","C">>
        at == {p \in 1..Len(k) : DirectionAt(k, p, asc) \/ DirectionAt(k, p, desc)}
    IN  IF at = {} THEN k
        ELSE LET p == CHOOSE a \in at : \A b \in at : a <= b
                 n == IF DirectionAt(k, p, asc) THEN 4 ELSE 5
             IN  SubSeq(k, 1, p - 1) \o SubSeq(k, p + n, Len(k))

\* columns.join(sep)
RECURSIVE Join(_, _)
Join(texts, sep) ==
    IF texts = <<>> THEN <<>>
    ELSE IF Len(texts) = 1 THEN texts[1]
    ELSE texts[1] \o sep \o Join(Tail(texts), sep)

Comma == <<",", " ">>
Underscore == <<"_">>

\* (the bands one step lower: medium from 1000 rows on)
ImpactOfScan_Lower(estimatedRows) ==
    IF estimatedRows > 10000 THEN "high"
    ELSE IF estimatedRows > 1000 THEN "medium" ELSE "low"

\* the impact of a sequential-scan suggestion
ImpactOfScan(estimatedRows) ==
    IF estimatedRows > 100000 THEN "high"
    ELSE IF estimatedRows > 10000 THEN "medium" ELSE "low"

\* the impact of a sort suggestion
ImpactOfSort(estimatedRows) == IF estimatedRows > 50000 THEN "high" ELSE "medium"

\* the texts of the templates
ScanReason1 == <<"S","e","q","u","e","n","t","i","a","l"," ","s","c","a","n"," ","w","i",
      "t","h"," ","f","i","l","t","e","r"," ","o","n"," ">>
ScanReason2 == <<" ","s","c","a","n","n","i","n","g"," ","~">>
ScanReason3 == <<" ","r","o","w","s">>
CreateIndex1 == <<"C","R","E","A","T","E"," ","I","N","D","E","X"," ","i","d","x","_">>
CreateIndex2 == <<" ","O","N"," ">>
CreateIndex3 == <<".">>
CreateIndex4 == <<" ","(">>
SortReason1 == <<"S","o","r","t"," ","o","p","e","r","a","t","i","o","n"," ","o","n"," ">>
SortReason2 == <<" ","w","i","t","h"," ","~">>
SortReason3 == <<" ","r","o","w","s","."," ","A","n"," ","i","n","d","e","x"," ","c","o",
      "u","l","d"," ","e","l","i","m","i","n","a","t","e"," ","t","h","e",
      " ","s","o","r","t",".">>
SortIndex1 == <<"-","-"," ","C","o","n","s","i","d","e","r"," ","a","d","d","i","n","g",
      " ","a","n"," ","i","n","d","e","x"," ","t","o"," ","s","u","p","p",
      "o","r","t"," ","t","h","i","s"," ","s","o","r","t",":","\n","-","-",
      " ","C","R","E","A","T","E"," ","I","N","D","E","X"," ","i","d","x",
      "_","s","o","r","t","_">>
SortIndex2 == <<".","<","t","a","b","l","e",">"," ","(">>
StatementEnd == <<")",";">>
UnknownTable == <<"u","n","k","n","o","w","n">>

\* (no test of the list)
HasColumns_Always(columns) == TRUE

\* `columns.length > 0` of both rules
HasColumns(columns) == Len(columns) > 0

\* (compared with >=)
ScanRowsExceeded_NonStrict(estimatedRows) == estimatedRows >= 1000

\* `estimatedRows > 1000` of the first rule
ScanRowsExceeded(estimatedRows) == estimatedRows > 1000

\* the first rule of analyzePlanNode: a sequential scan with a filter
ScanSuggestions(node, schema) ==
    LET nodeType == NodeTypeOf(node)
        table == Interpolated(node, "Relation Name")
        estimatedRows == NumberOr0(node, "Plan Rows")
    IN  IF /\ nodeType = "Seq Scan"
           /\ Has(node, "Filter") /\ node["Filter"] # <<>>
           /\ ScanRowsExceeded(estimatedRows)
        THEN LET columns == extractColumnsFromFilter(node["Filter"]) IN
             IF HasColumns(columns)
             THEN <<[table |-> table,
                     columns |-> columns,
                     reason |-> ScanReason1 \o Join(columns, Comma) \o ScanReason2
                                \o DecStr(estimatedRows) \o ScanReason3,
                     impact |-> ImpactOfScan(estimatedRows),
                     createStatement |->
                         CreateIndex1 \o table \o Underscore
                         \o Join(columns, Underscore) \o CreateIndex2 \o schema
                         \o CreateIndex3 \o table \o CreateIndex4
                         \o Join(columns, Comma) \o StatementEnd]>>
             ELSE <<>>
        ELSE <<>>

\* `estimatedRows > 5000` of the second rule
SortRowsExceeded(estimatedRows) == estimatedRows > 5000

\* the second rule of analyzePlanNode: a sort
SortSuggestions(node, schema) ==
    LET nodeType == NodeTypeOf(node)
        estimatedRows == NumberOr0(node, "Plan Rows")
    IN  IF nodeType = "Sort" /\ Has(node, "Sort Key")
        THEN LET sortKey == node["Sort Key"]
                 columns == [i \in 1..Len(sortKey) |->
                                StripDirection(StripQualifier(sortKey[i]))]
             IN  IF HasColumns(columns) /\ SortRowsExceeded(estimatedRows)
                 THEN <<[table |-> IF Has(node, "Relation Name")
                                   THEN node["Relation Name"] ELSE UnknownTable,
                         columns |-> columns,
                         reason |-> SortReason1 \o Join(columns, Comma)
                                    \o SortReason2 \o DecStr(estimatedRows)
                                    \o SortReason3,
                         impact |-> ImpactOfSort(estimatedRows),
                         createStatement |->
                             SortIndex1 \o Join(columns, Underscore)
                             \o CreateIndex2 \o schema \o SortIndex2
                             \o Join(columns, Comma) \o StatementEnd]>>
                 ELSE <<>>
        ELSE <<>>

\* analyzePlanNode(node, schema, suggestions): what it pushes
RECURSIVE analyzePlanNode(_, _)
analyzePlanNode(node, schema) ==
    LET plans == Children(node) IN
    ScanSuggestions(node, schema) \o SortSuggestions(node, schema)
    \o Concat([i \in 1..Len(plans) |-> analyzePlanNode(plans[i], schema)])

\* the objects analyzePlanNode reads "Node Type" of, in the order of the calls
RECURSIVE SuggestionsExamined(_)
SuggestionsExamined(node) ==
    LET plans == Children(node) IN
    <<node>> \o Concat([i \in 1..Len(plans) |-> SuggestionsExamined(plans[i])])

\* suggestIndexes from the plan on: the root is unwrapped in the call
suggestIndexes(plan, schema) == analyzePlanNode(Unwrap(plan), schema)

\* ======================================================================
\* Requests, responses and pg objects
\* ======================================================================
\* a pg Pool: st is "none" (not created), "live", "ending" (end() called, the
\* promise not yet resolved) or "ended"; out counts the clients checked out;
\* twice records that end() was called on it again
NoPool == [st |-> "none", out |-> 0, twice |-> FALSE]
NewPool == [st |-> "live", out |-> 0, twice |-> FALSE]
Created == {p \in PoolId : pools[p].st # "none"}

\* what a handler returns
NoResp == [kind |-> "none", text |-> ""]
Success(text) == [kind |-> "ok", text |-> text]
\* errorResult(error): the text is `Error: ${message}`
errorResult(message) == [kind |-> "error", text |-> message]

\* what the handler of the resource returns: contents of one text
Contents(mimeType, text) == [kind |-> mimeType, text |-> text]
OverviewNotice == "Not connected to a database. Use the 'connect' tool first."

\* every handler but connection_status wraps its body in try/catch
TryCatchTools == (ConnTools \cup DataTools) \ {"connection_status"}

\* an exception e raised in the body of a handler: the catch turns it into
\* errorResult(e), the resource's catch into the plain text
\* `Error generating overview: ${e}`; outside a try it would leave the
\* handler
Caught_NoCatch(tool, e) == [kind |-> "thrown", text |-> e]
Caught(tool, e) ==
    IF tool \in TryCatchTools THEN errorResult(e)
    ELSE IF tool = Overview THEN Contents("text/plain", e)
    ELSE [kind |-> "thrown", text |-> e]

\* one queryReadOnly call: pc is the await it is at ("acquire" pool.connect(),
\* "begin", "stmt", "commit", "rollback") or how it ended ("done" returned,
\* "failed" threw err); p is the pool it read from this.pool; tx says whether
\* a transaction is open on its client; rel counts client.release() calls and
\* relTx is tx at the release. A call of query(sql, params) has the same
\* record: at "direct" pool.query waits for a client, at "directStmt" its
\* statement runs on it.
NewQuery(p) ==
    [pc |-> "acquire", p |-> p, tx |-> FALSE, err |-> "none", rel |-> 0, relTx |-> FALSE]
Terminal(s) == s.pc \in {"done", "failed"}
Holds(s) == s.pc \in {"begin", "stmt", "commit", "rollback", "directStmt"}

\* a request slot: rows is the shape of the result the database returns to
\* it ("rows", or "empty" for result.rows = []); left is the number of
\* schemas the resource handler has yet to list the tables of; pc is "idle",
\* "disc" (awaiting pool.end()), "afterDisc" (connect, awaiting
\* this.disconnect()), "test" (connect, awaiting the test connection), "run"
\* (awaiting its queryReadOnly calls) or "returned"
Idle ==
    [tool |-> "none", pc |-> "idle", resp |-> NoResp, cfg |-> "null",
     sql |-> <<>>, p |-> 0, q |-> <<>>, rows |-> "rows", left |-> 0]

Subs(r) == DOMAIN req[r].q

\* requests take the lowest free slot (slots are interchangeable)
CanStart(r) == req[r].pc = "idle" /\ \A x \in 1..(r - 1) : req[x].pc # "idle"
Quiescent == \A r \in Req : req[r].pc = "idle"

\* ======================================================================
\* DatabaseManager
\* ======================================================================
isConnected == pool # 0
getConnectionInfo == config

\* queryReadOnly up to its first await: ensureConnected(), then
\* this.pool.connect(), which pg rejects at once on a pool that end() was
\* called on
queryReadOnlyCall ==
    IF pool = 0
    THEN [NewQuery(0) EXCEPT !.pc = "failed", !.err = NotConnectedMsg]
    ELSE IF pools[pool].st # "live"
         THEN [NewQuery(pool) EXCEPT !.pc = "failed", !.err = ConnectionFailure]
         ELSE NewQuery(pool)

\* query(sql, params) up to its first await: ensureConnected(), then
\* this.pool.query(sql, params), which asks the pool for a client as
\* pool.connect() does; no transaction is begun and validateReadOnly is not
\* called
queryCall ==
    IF pool = 0
    THEN [NewQuery(0) EXCEPT !.pc = "failed", !.err = NotConnectedMsg]
    ELSE IF pools[pool].st # "live"
         THEN [NewQuery(pool) EXCEPT !.pc = "failed", !.err = ConnectionFailure]
         ELSE [NewQuery(pool) EXCEPT !.pc = "direct"]

\* client.release()
Released(s) == [s EXCEPT !.rel = @ + 1, !.relTx = s.tx]

\* `await client.query("COMMIT"); return result` with its finally, or the
\* jump to the catch block; a COMMIT that failed may or may not have ended
\* the transaction (open says which)
AfterCommit(s, ok, open) ==
    IF ok THEN Released([s EXCEPT !.pc = "done", !.tx = FALSE])
    ELSE [s EXCEPT !.pc = "rollback", !.tx = open]

\* catch: `await client.query("ROLLBACK"); throw error`, then finally.
\* A ROLLBACK that throws replaces the caught error and leaves the
\* transaction as it was.
AfterRollback_NoFinally(s, ok) ==
    IF ok THEN Released([s EXCEPT !.pc = "failed", !.tx = FALSE, !.err = QueryFailure])
    ELSE [s EXCEPT !.pc = "failed", !.err = RollbackFailure]
AfterRollback(s, ok) ==
    IF ok THEN Released([s EXCEPT !.pc = "failed", !.tx = FALSE, !.err = QueryFailure])
    ELSE Released([s EXCEPT !.pc = "failed", !.err = RollbackFailure])

\* ======================================================================
\* Tool methods and handlers
\* ======================================================================
\* executeQuery, explainQuery and getQueryCost call validateReadOnly first;
\* suggestIndexes does not
ValidatedTools == {"run_query", "explain_query", "query_cost"}

\* the SQL texts callers supply
SelectOne == <<"S","E","L","E","C","T"," ","1">>
DropTable == <<"D","R","O","P"," ","t">>
SqlSamples == {SelectOne, DropTable}

\* what reaches the handler's catch when a queryReadOnly call threw e:
\* getSlowQueries catches everything and throws its own error
Thrown(tool, e) == IF tool = "slow_queries" THEN ExtensionMsg ELSE e

\* tools that read result.rows[0]?.["QUERY PLAN"]
ExplainTools == {"explain_query", "query_cost", "suggest_indexes"}
\* the result of their EXPLAIN: a row holding a plan, or no row at all
ResultShapes == {"rows", "empty"}

\* what the tool method does with the result of its calls: suggestIndexes
\* reads plan["Plan"] with plan undefined when there is no row, explainQuery
\* and getQueryCost read it through `?.` and return
MethodThrows(tool, rows) == tool = "suggest_indexes" /\ rows = "empty"

\* the number of queryReadOnly calls a tool method makes
FanOut(tool) == IF tool = "database_health" THEN HealthFanOut ELSE 1

\* (a handler that waited for every call to settle and reported what the
\* successful ones returned)
Settle_AllSettled(rq) ==
    IF rq.pc # "run" THEN rq
    ELSE IF \A i \in DOMAIN rq.q : Terminal(rq.q[i])
         THEN IF \E i \in DOMAIN rq.q : rq.q[i].pc = "done"
              THEN [rq EXCEPT !.pc = "returned", !.resp = Success("result")]
              ELSE [rq EXCEPT !.pc = "returned",
                              !.resp = Caught(rq.tool, Thrown(rq.tool, rq.q[1].err))]
         ELSE rq

\* The handler's `await` on its tool method (for database_health through
\* Promise.all): it returns the error response as soon as one call has
\* thrown, and the success response once all calls have returned.
Settle(rq) ==
    IF rq.pc # "run" THEN rq
    ELSE IF \E i \in DOMAIN rq.q : rq.q[i].pc = "failed"
         THEN LET i == CHOOSE k \in DOMAIN rq.q :
                          /\ rq.q[k].pc = "failed"
                          /\ \A m \in 1..(k - 1) : rq.q[m].pc # "failed"
              IN  [rq EXCEPT !.pc = "returned",
                             !.resp = Caught(rq.tool, Thrown(rq.tool, rq.q[i].err))]
         ELSE IF rq.tool # Overview /\ \A i \in DOMAIN rq.q : rq.q[i].pc = "done"
              THEN [rq EXCEPT !.pc = "returned",
                              !.resp = IF MethodThrows(rq.tool, rq.rows)
                                       THEN Caught(rq.tool, TypeErrorMsg)
                                       ELSE Success("result")]
              ELSE rq

\* The resource handler's `for (const schema of schemas)`, resumed when the
\* call it awaits has returned: with a schema left it makes the next
\* listTables call (queryReadOnly reads this.pool anew); after the last one
\* it builds the overview from db.getConnectionInfo() and returns.
Resume(rq) ==
    IF rq.left > 0
    THEN Settle([rq EXCEPT !.q = Append(@, queryReadOnlyCall), !.left = @ - 1])
    ELSE [rq EXCEPT !.pc = "returned",
                    !.resp = Contents("application/json", getConnectionInfo)]

\* a data tool is called: validation (where the method does it), then the
\* synchronous part of each queryReadOnly call
QueryCall(r, tool, s) ==
    /\ CanStart(r)
    /\ \E shape \in (IF tool \in ExplainTools THEN ResultShapes ELSE {"rows"}) :
         LET call == [Idle EXCEPT !.tool = tool, !.pc = "run", !.sql = s]
         IN  IF tool \in ValidatedTools /\ validateReadOnly(s) # 0
             THEN req' = [req EXCEPT ![r] =
                             [call EXCEPT !.pc = "returned",
                                          !.resp = Caught(tool, ForbiddenMsg)]]
             ELSE req' = [req EXCEPT ![r] =
                             Settle([call EXCEPT !.rows = shape, !.q =
                                        [i \in 1..FanOut(tool) |-> queryReadOnlyCall]])]
    /\ UNCHANGED <<pool, config, pools, sql, verdict, arg, res>>

\* the resource db://overview is read, the database listing n schemas: the
\* notice when not connected, else listSchemas up to its first await
OverviewCall(r, n) ==
    /\ CanStart(r)
    /\ req' = [req EXCEPT ![r] =
                  IF ~isConnected
                  THEN [Idle EXCEPT !.tool = Overview, !.pc = "returned",
                                    !.resp = Contents("text/plain", OverviewNotice)]
                  ELSE Settle([Idle EXCEPT !.tool = Overview, !.pc = "run",
                                           !.left = n, !.q = <<queryReadOnlyCall>>])]
    /\ UNCHANGED <<pool, config, pools, sql, verdict, arg, res>>

\* a step of the queryReadOnly call i of request r: its record becomes s2,
\* the pool's count follows the acquisition or the release, and a tool's
\* handler returns if that settles what it awaits
StepQuery(r, i, s2) ==
    LET s == req[r].q[i] IN
    /\ req' = [req EXCEPT ![r] = Settle([req[r] EXCEPT !.q[i] = s2])]
    /\ pools' = IF Holds(s2) /\ ~Holds(s)
                THEN [pools EXCEPT ![s.p].out = @ + 1]
                ELSE [pools EXCEPT ![s.p].out = @ - (s2.rel - s.rel)]
    /\ UNCHANGED <<pool, config, sql, verdict, arg, res>>

\* `await this.pool!.connect()` settles
Acquire(r, i, ok) ==
    /\ i \in Subs(r) /\ req[r].q[i].pc = "acquire"
    /\ LET s == req[r].q[i] IN
       IF ok
       THEN /\ pools[s.p].st \in {"live", "ending"}
            /\ pools[s.p].out < PoolMax
            /\ StepQuery(r, i, [s EXCEPT !.pc = "begin"])
       ELSE StepQuery(r, i, [s EXCEPT !.pc = "failed", !.err = ConnectionFailure])

\* `await client.query("BEGIN TRANSACTION READ ONLY")` settles
Begin(r, i, ok) ==
    /\ i \in Subs(r) /\ req[r].q[i].pc = "begin"
    /\ LET s == req[r].q[i] IN
       StepQuery(r, i, IF ok THEN [s EXCEPT !.pc = "stmt", !.tx = TRUE]
                             ELSE [s EXCEPT !.pc = "rollback"])

\* `await client.query(sql, params)` settles
Stmt(r, i, ok) ==
    /\ i \in Subs(r) /\ req[r].q[i].pc = "stmt"
    /\ LET s == req[r].q[i] IN
       StepQuery(r, i, IF ok THEN [s EXCEPT !.pc = "commit"]
                             ELSE [s EXCEPT !.pc = "rollback"])

\* `await client.query("COMMIT")` settles
Commit(r, i, ok, open) ==
    /\ i \in Subs(r) /\ req[r].q[i].pc = "commit"
    /\ (ok => ~open)
    /\ StepQuery(r, i, AfterCommit(req[r].q[i], ok, open))

\* `await client.query("ROLLBACK")` settles
Rollback(r, i, ok) ==
    /\ i \in Subs(r) /\ req[r].q[i].pc = "rollback"
    /\ StepQuery(r, i, AfterRollback(req[r].q[i], ok))

\* query(sql, params) is called by code that holds the exported
\* DatabaseManager (no handler, tool class or resource of the server calls
\* it): the promise it returns settles as pool.query does
ManagerQuery(r, s) ==
    /\ CanStart(r)
    /\ req' = [req EXCEPT ![r] =
                  Settle([Idle EXCEPT !.tool = "query", !.pc = "run", !.sql = s,
                                      !.q = <<queryCall>>])]
    /\ UNCHANGED <<pool, config, pools, sql, verdict, arg, res>>

\* pool.query has its client, or fails to get one
DirectAcquire(r, i, ok) ==
    /\ i \in Subs(r) /\ req[r].q[i].pc = "direct"
    /\ LET s == req[r].q[i] IN
       IF ok
       THEN /\ pools[s.p].st \in {"live", "ending"}
            /\ pools[s.p].out < PoolMax
            /\ StepQuery(r, i, [s EXCEPT !.pc = "directStmt"])
       ELSE StepQuery(r, i, [s EXCEPT !.pc = "failed", !.err = ConnectionFailure])

\* the statement of pool.query settles: the pool takes the client back and
\* the promise resolves with the result or rejects with the error
DirectStmt(r, i, ok) ==
    /\ i \in Subs(r) /\ req[r].q[i].pc = "directStmt"
    /\ LET s == req[r].q[i] IN
       StepQuery(r, i, IF ok THEN Released([s EXCEPT !.pc = "done"])
                             ELSE Released([s EXCEPT !.pc = "failed", !.err = QueryFailure]))

\* disconnect() up to its await, called with this.pool set: pool.end(), which
\* pg rejects when end() was called on the pool before
disconnectCall(r, tool, cfg) ==
    /\ IF pools[pool].st = "live"
       THEN /\ pools' = [pools EXCEPT ![pool].st = "ending"]
            /\ req' = [req EXCEPT ![r] =
                          [Idle EXCEPT !.tool = tool, !.pc = "disc",
                                       !.cfg = cfg, !.p = pool]]
       ELSE /\ pools' = [pools EXCEPT ![pool].twice = TRUE]
            /\ req' = [req EXCEPT ![r] =
                          [Idle EXCEPT !.tool = tool, !.pc = "returned", !.cfg = cfg,
                                       !.resp = Caught(tool, EndTwice)]]
    /\ UNCHANGED <<pool, config>>

\* connect from `new Pool(poolConfig)` to `await this.pool.connect()`
createPool(r, cfg) ==
    LET id == Cardinality(Created) + 1 IN
    /\ pools' = [pools EXCEPT ![id] = NewPool]
    /\ pool' = id
    /\ config' = cfg
    /\ req' = [req EXCEPT ![r] =
                  [Idle EXCEPT !.tool = "connect", !.pc = "test", !.cfg = cfg, !.p = id]]

\* connect calls that have yet to create their pool
PendingCreate == {r \in Req : req[r].tool = "connect" /\ req[r].pc \in {"disc", "afterDisc"}}

\* tool connect: db.connect(params) up to its first await
ConnectCall(r, cfg) ==
    /\ CanStart(r)
    /\ Cardinality(Created) + Cardinality(PendingCreate) < MaxPools
    /\ IF pool # 0 THEN disconnectCall(r, "connect", cfg) ELSE createPool(r, cfg)
    /\ UNCHANGED <<sql, verdict, arg, res>>

\* tool disconnect: db.disconnect() up to its await
DisconnectCall(r) ==
    /\ CanStart(r)
    /\ IF pool # 0
       THEN disconnectCall(r, "disconnect", "null")
       ELSE /\ req' = [req EXCEPT ![r] =
                          [Idle EXCEPT !.tool = "disconnect", !.pc = "returned",
                                       !.resp = Success("Disconnected successfully.")]]
            /\ UNCHANGED <<pool, config, pools>>
    /\ UNCHANGED <<sql, verdict, arg, res>>

\* `await this.pool.end()` resolves, once every client is back: the rest of
\* disconnect(), and for the tool disconnect the handler's return
EndResolves(r) ==
    /\ req[r].pc = "disc"
    /\ pools[req[r].p].st = "ending" /\ pools[req[r].p].out = 0
    /\ pools' = [pools EXCEPT ![req[r].p].st = "ended"]
    /\ pool' = 0
    /\ config' = "null"
    /\ req' = [req EXCEPT ![r] =
                  IF req[r].tool = "disconnect"
                  THEN [@ EXCEPT !.pc = "returned",
                                 !.resp = Success("Disconnected successfully.")]
                  ELSE [@ EXCEPT !.pc = "afterDisc"]]
    /\ UNCHANGED <<sql, verdict, arg, res>>

\* connect resumes after `await this.disconnect()`
ConnectCreate(r) ==
    /\ req[r].pc = "afterDisc"
    /\ createPool(r, req[r].cfg)
    /\ UNCHANGED <<sql, verdict, arg, res>>

\* the test connection settles: `client.release()` and the success response,
\* or the error response
ConnectTest(r, ok) ==
    /\ req[r].pc = "test"
    /\ ok => pools[req[r].p].st \in {"live", "ending"} /\ pools[req[r].p].out < PoolMax
    /\ req' = [req EXCEPT ![r] =
                  [@ EXCEPT !.pc = "returned",
                            !.resp = IF ok THEN Success("Successfully connected")
                                     ELSE Caught("connect", ConnectionFailure)]]
    /\ UNCHANGED <<pool, config, pools, sql, verdict, arg, res>>

\* tool connection_status
StatusCall(r) ==
    /\ CanStart(r)
    /\ req' = [req EXCEPT ![r] =
                  [Idle EXCEPT !.tool = "connection_status", !.pc = "returned",
                               !.resp = IF getConnectionInfo = "null"
                                        THEN Success("Not connected to any database.")
                                        ELSE Success("Connected to")]]
    /\ UNCHANGED <<pool, config, pools, sql, verdict, arg, res>>

\* The resource handler goes on after a call that returned. Two awaits lie
\* between client.release() and this continuation (listSchemas or listTables
\* awaits queryReadOnly, the handler awaits listSchemas or listTables), and
\* it reads this.pool or this.config: a disconnect() whose end() settles at
\* that release, and the createPool of a connect that follows it, run first.
OverviewResume(r) ==
    /\ req[r].tool = Overview
    /\ req[r].pc = "run"
    /\ \A i \in Subs(r) : req[r].q[i].pc = "done"
    /\ req' = [req EXCEPT ![r] = Resume(req[r])]
    /\ UNCHANGED <<pool, config, pools, sql, verdict, arg, res>>

\* the response has gone out and every queryReadOnly call of the request has
\* ended: the slot is free again
Reap(r) ==
    /\ req[r].pc = "returned"
    /\ \A i \in Subs(r) : Terminal(req[r].q[i])
    /\ req' = [req EXCEPT ![r] = Idle]
    /\ UNCHANGED <<pool, config, pools, sql, verdict, arg, res>>

\* ======================================================================
\* Specifications
\* ======================================================================
Init ==
    /\ pool = 0
    /\ config = "null"
    /\ pools = [p \in PoolId |-> NoPool]
    /\ req = [r \in Req |-> Idle]
    /\ sql = <<>>
    /\ verdict = -1
    /\ arg = <<>>
    /\ res = <<>>

\* the steps of the calls in flight
Progress(r) ==
    \/ EndResolves(r)
    \/ ConnectCreate(r)
    \/ \E ok \in BOOLEAN : ConnectTest(r, ok)
    \/ \E i \in Subs(r), ok \in BOOLEAN :
          \/ Acquire(r, i, ok)
          \/ Begin(r, i, ok)
          \/ Stmt(r, i, ok)
          \/ \E open \in BOOLEAN : Commit(r, i, ok, open)
          \/ Rollback(r, i, ok)
    \/ Reap(r)

\* Clients that call connect, disconnect, connection_status and a catalog
\* tool with no regard for the calls in flight.
Next ==
    \E r \in Req :
        \/ \E cfg \in Configs : ConnectCall(r, cfg)
        \/ DisconnectCall(r)
        \/ StatusCall(r)
        \/ QueryCall(r, "list_schemas", <<>>)
        \/ Progress(r)

Spec == Init /\ [][Next]_vars

\* The same clients, which also read the overview resource: its calls follow
\* one another within one request, and any step of another request can fall
\* between two of them.
ReadOverview ==
    \E r \in Req :
        \/ \E n \in 0..MaxSchemas : OverviewCall(r, n)
        \/ OverviewResume(r)

NextWithOverview == Next \/ ReadOverview

SpecWithOverview == Init /\ [][NextWithOverview]_vars

\* Every caller of the manager: the clients above and code that calls
\* query(sql, params) on the exported class.
DirectQuery ==
    \E r \in Req :
        \/ \E s \in SqlSamples : ManagerQuery(r, s)
        \/ \E i \in Subs(r), ok \in BOOLEAN :
              \/ DirectAcquire(r, i, ok)
              \/ DirectStmt(r, i, ok)

NextManager == NextWithOverview \/ DirectQuery

SpecManager == Init /\ [][NextManager]_vars

\* A client that calls any tool or reads the resource, one call at a time:
\* the next call is made when the previous one is over.
SeqConnect(r, cfg) == Quiescent /\ ConnectCall(r, cfg)
SeqDisconnect(r) == Quiescent /\ DisconnectCall(r)
SeqStatus(r) == Quiescent /\ StatusCall(r)
SeqQuery(r, tool, s) == Quiescent /\ QueryCall(r, tool, s)
SeqOverview(r, n) == Quiescent /\ OverviewCall(r, n)

NextSeq ==
    \E r \in Req :
        \/ \E cfg \in Configs : SeqConnect(r, cfg)
        \/ SeqDisconnect(r)
        \/ SeqStatus(r)
        \/ \E tool \in DataTools :
              \E s \in (IF tool \in SqlTools THEN SqlSamples ELSE {<<>>}) :
                  SeqQuery(r, tool, s)
        \/ \E n \in 0..MaxSchemas : SeqOverview(r, n)
        \/ OverviewResume(r)
        \/ Progress(r)

SpecSeq == Init /\ [][NextSeq]_vars

\* validateReadOnly on generated texts: every concatenation of at most
\* MaxPieces of these pieces
Pieces ==
    { <<"/", "*">>, <<"*", "/">>, <<"-", "-">>, <<"\n">>, <<"U+2028">>, <<"'">>,
      <<"x">>, <<"D", "r", "o", "p">> }

RECURSIVE Texts(_)
Texts(n) ==
    IF n = 0 THEN {<<>>}
    ELSE LET T == Texts(n - 1) IN T \cup {t \o p : t \in T, p \in Pieces}

InitValidate ==
    /\ pool = 0
    /\ config = "null"
    /\ pools = [p \in PoolId |-> NoPool]
    /\ req = [r \in Req |-> Idle]
    /\ sql \in Texts(MaxPieces)
    /\ verdict = -1
    /\ arg = <<>>
    /\ res = <<>>

Validate ==
    /\ verdict = -1
    /\ verdict' = validateReadOnly(sql)
    /\ UNCHANGED <<pool, config, pools, req, sql, arg, res>>

NextValidate == Validate

SpecValidate == InitValidate /\ [][NextValidate]_vars

\* ensureLimit on generated texts: res is the sequence of its results, the
\* first for the text, the second for the first result
LimitPieces ==
    { <<"S","E","L","E","C","T">>, <<"s","e","l","e","c","t">>,
      <<"l","i","m","i","t">>, <<" ">>, <<"\f">>, <<";">>, <<"x">>, <<"1">> }

RECURSIVE LimitTexts(_)
LimitTexts(n) ==
    IF n = 0 THEN {<<>>}
    ELSE LET T == LimitTexts(n - 1) IN T \cup {t \o p : t \in T, p \in LimitPieces}

\* the limits callers pass (100 is the default)
Limits == {7, 100}

InitLimit ==
    /\ pool = 0
    /\ config = "null"
    /\ pools = [p \in PoolId |-> NoPool]
    /\ req = [r \in Req |-> Idle]
    /\ sql = <<>>
    /\ verdict = -1
    /\ arg \in [sql : LimitTexts(MaxPieces), limit : Limits]
    /\ res = <<>>

EnsureLimit ==
    /\ res = <<>>
    /\ res' = <<ensureLimit(arg.sql, arg.limit)>>
    /\ UNCHANGED <<pool, config, pools, req, sql, verdict, arg>>

EnsureLimitAgain ==
    /\ Len(res) = 1
    /\ res' = Append(res, ensureLimit(res[1], arg.limit))
    /\ UNCHANGED <<pool, config, pools, req, sql, verdict, arg>>

NextLimit == EnsureLimit \/ EnsureLimitAgain

SpecLimit == InitLimit /\ [][NextLimit]_vars

\* extractWarnings and suggestIndexes on generated plans: single nodes over
\* every combination of the fields the rules read, with the row counts and
\* costs at and around the thresholds, bare or wrapped as {Plan: node}, and
\* trees of a few kinds of node in which a Seq Scan may come wrapped.  The
\* schema is any string the caller sends (z.string(), default "public"), a
\* sort key any string of the plan: both go into the statement as they are.
Public == <<"p","u","b","l","i","c">>
Schemas == {Public, <<"s">>, <<"a","\n","b">>}
TableT == <<"t">>
UserIdFilter == <<"(","u","s","e","r","_","i","d"," ","="," ","5",")">>
Filters ==
    { <<>>, UserIdFilter,
      <<"(","f","(","a",")"," ","="," ","1",")">>,
      <<"(","a","\f","="," ","1",")">>,
      <<"(","(","a"," ",">"," ","1",")"," ","A","N","D"," ","(","b"," ","="," ","2",")"," ","A","N","D"," ","(","a"," ","<"," ","9",")",")">> }
SortKeys ==
    { <<>>, <<<<"t",".","a"," ","D","E","S","C">>>>, <<<<"a">>, <<"b">>>>,
      <<<<"t",".","a">>, <<"u",".","a">>>>,
      <<<<"t",".","a","U+2028","u",".","b">>>>,
      <<<<"t",".","a","\r","b">>>> }
RowCounts ==
    {1000, 1001, 2000, 5000, 5001, 10000, 10001, 50000, 50001, 100000, 100001}
Costs == {10000, 10001}
NodeTypes == {"Seq Scan", "Nested Loop", "Sort", "Hash", "Index Scan"}

\* a key left out, or present with one of the values
Field(k, values) == {NoKeys} \cup {k :> v : v \in values}

Nodes ==
    { ("Node Type" :> ty) @@ r @@ c @@ n @@ f @@ s :
        ty \in NodeTypes, r \in Field("Plan Rows", RowCounts),
        c \in Field("Total Cost", Costs), n \in Field("Relation Name", {TableT}),
        f \in Field("Filter", Filters), s \in Field("Sort Key", SortKeys) }

TreeNodes ==
    { ("Node Type" :> "Seq Scan") @@ ("Relation Name" :> TableT)
          @@ ("Plan Rows" :> 20000) @@ ("Filter" :> UserIdFilter),
      ("Node Type" :> "Sort") @@ ("Plan Rows" :> 6000) @@ ("Total Cost" :> 20000)
          @@ ("Sort Key" :> <<<<"a">>>>),
      ("Node Type" :> "Nested Loop") @@ ("Plan Rows" :> 10) }

\* {Plan: node} around each of the nodes
Wrapped(nodes) == {("Plan" :> b) : b \in nodes}

\* the plans with up to n nodes, a Seq Scan bare or wrapped, built by size:
\* T[j] holds the plans with j nodes, F[m + 1] the lists of plans with m
\* nodes in all
RECURSIVE GrowTrees(_, _, _)
GrowTrees(n, T, F) ==
    IF Len(T) = n THEN T
    ELSE LET k == Len(T) + 1
             bare == {IF f = <<>> THEN nd ELSE nd @@ ("Plans" :> f) :
                         nd \in TreeNodes, f \in F[k]}
             T2 == Append(T, bare \cup Wrapped({b \in bare : NodeTypeOf(b) = "Seq Scan"}))
             Fk == IF k = n THEN {}
                   ELSE UNION {{<<tr>> \o f : tr \in T2[j], f \in F[k - j + 1]} :
                                  j \in 1..k}
         IN  GrowTrees(n, T2, Append(F, Fk))

PlanTrees ==
    LET T == GrowTrees(MaxNodes, <<>>, <<{<<>>}>>) IN UNION {T[n] : n \in 1..MaxNodes}

NotRun ==
    [explained |-> FALSE, warnings |-> <<>>, suggested |-> FALSE, suggestions |-> <<>>]

InitPlan ==
    /\ pool = 0
    /\ config = "null"
    /\ pools = [p \in PoolId |-> NoPool]
    /\ req = [r \in Req |-> Idle]
    /\ sql = <<>>
    /\ verdict = -1
    /\ arg \in [plan : Nodes, schema : Schemas]
               \cup [plan : Wrapped(Nodes) \cup PlanTrees, schema : {Public}]
    /\ res = NotRun

\* explainQuery from the plan on
Explain ==
    /\ ~res.explained
    /\ res' = [res EXCEPT !.explained = TRUE, !.warnings = extractWarnings(arg.plan)]
    /\ UNCHANGED <<pool, config, pools, req, sql, verdict, arg>>

\* suggestIndexes from the plan on
Suggest ==
    /\ ~res.suggested
    /\ res' = [res EXCEPT !.suggested = TRUE,
                          !.suggestions = suggestIndexes(arg.plan, arg.schema)]
    /\ UNCHANGED <<pool, config, pools, req, sql, verdict, arg>>

NextPlan == Explain \/ Suggest

SpecPlan == InitPlan /\ [][NextPlan]_vars

\* ======================================================================
\* Properties
\* ======================================================================
\* Where the comments of a SQL text are, by PostgreSQL's lexical rules: a
\* `--` outside a string literal and a block comment runs to the end of the
\* line, `/* */` comments nest, and neither starts inside a '...' literal.
\* CommentMask(s, mode, depth)[i] says whether s[i] is part of a comment.
\* (PostgreSQL ends a `--` comment at a newline or a carriage return)
Newlines == {"\n", "\r"}
RECURSIVE CommentMask(_, _, _)
CommentMask(s, mode, depth) ==
    IF s = <<>> THEN <<>>
    ELSE IF mode = "sql"
    THEN IF Len(s) >= 2 /\ s[1] = "-" /\ s[2] = "-"
         THEN <<TRUE, TRUE>> \o CommentMask(From(s, 3), "line", 0)
         ELSE IF Len(s) >= 2 /\ s[1] = "/" /\ s[2] = "*"
         THEN <<TRUE, TRUE>> \o CommentMask(From(s, 3), "block", 1)
         ELSE IF s[1] = "'"
         THEN <<FALSE>> \o CommentMask(Tail(s), "string", 0)
         ELSE <<FALSE>> \o CommentMask(Tail(s), "sql", 0)
    ELSE IF mode = "line"
    THEN IF s[1] \in Newlines
         THEN <<FALSE>> \o CommentMask(Tail(s), "sql", 0)
         ELSE <<TRUE>> \o CommentMask(Tail(s), "line", 0)
    ELSE IF mode = "block"
    THEN IF Len(s) >= 2 /\ s[1] = "*" /\ s[2] = "/"
         THEN <<TRUE, TRUE>> \o
              CommentMask(From(s, 3), IF depth = 1 THEN "sql" ELSE "block", depth - 1)
         ELSE IF Len(s) >= 2 /\ s[1] = "/" /\ s[2] = "*"
         THEN <<TRUE, TRUE>> \o CommentMask(From(s, 3), "block", depth + 1)
         ELSE <<TRUE>> \o CommentMask(Tail(s), "block", depth)
    ELSE IF s[1] = "'"
         THEN <<FALSE>> \o CommentMask(Tail(s), "sql", 0)
         ELSE <<FALSE>> \o CommentMask(Tail(s), "string", 0)

\* the mode the text ends in
RECURSIVE EndMode(_, _, _)
EndMode(s, mode, depth) ==
    IF s = <<>> THEN mode
    ELSE IF mode = "sql"
    THEN IF Len(s) >= 2 /\ s[1] = "-" /\ s[2] = "-" THEN EndMode(From(s, 3), "line", 0)
         ELSE IF Len(s) >= 2 /\ s[1] = "/" /\ s[2] = "*" THEN EndMode(From(s, 3), "block", 1)
         ELSE IF s[1] = "'" THEN EndMode(Tail(s), "string", 0)
         ELSE EndMode(Tail(s), "sql", 0)
    ELSE IF mode = "line"
    THEN EndMode(Tail(s), IF s[1] \in Newlines THEN "sql" ELSE "line", 0)
    ELSE IF mode = "block"
    THEN IF Len(s) >= 2 /\ s[1] = "*" /\ s[2] = "/"
         THEN EndMode(From(s, 3), IF depth = 1 THEN "sql" ELSE "block", depth - 1)
         ELSE IF Len(s) >= 2 /\ s[1] = "/" /\ s[2] = "*"
         THEN EndMode(From(s, 3), "block", depth + 1)
         ELSE EndMode(Tail(s), "block", depth)
    ELSE EndMode(Tail(s), IF s[1] = "'" THEN "sql" ELSE "string", 0)

\* every block comment and string literal of the text is closed
WellFormed(s) == EndMode(s, "sql", 0) \in {"sql", "line"}

\* the whole-word occurrences of forbidden keywords in the text itself
Occurrences(s) ==
    {o \in (1..Len(s)) \X Keywords : WordAt(s, o[1], o[2])}
OccursInComment(s, o) ==
    LET mask == CommentMask(s, "sql", 0)
    IN  \A i \in o[1]..(o[1] + Len(o[2]) - 1) : mask[i]
KeywordOutsideComments(s) == \E o \in Occurrences(s) : ~OccursInComment(s, o)
KeywordsOnlyInComments(s) ==
    /\ Occurrences(s) # {}
    /\ \A o \in Occurrences(s) : OccursInComment(s, o)

\* the queryReadOnly calls that have asked the pool for a client or hold one
Engaged(s) == s.pc = "acquire" \/ Holds(s) \/ s.rel > 0

\* C1: a SQL tool called with a forbidden keyword outside comments returns an
\* error response, and nothing is asked of the pool or sent to the database
\* on its behalf.
C1_ForbiddenSqlNeverReachesDb ==
    \A r \in Req :
        req[r].tool \in SqlTools /\ KeywordOutsideComments(req[r].sql)
        => /\ \A i \in Subs(r) : ~Engaged(req[r].q[i])
           /\ req[r].pc = "returned" => req[r].resp.kind = "error"

\* C2: validateReadOnly throws on every (well-formed) text with a forbidden
\* keyword as a whole word outside the comments, wherever the comment
\* delimiters of the text are.
C2_KeywordOutsideCommentFails ==
    verdict # -1 /\ WellFormed(sql) /\ KeywordOutsideComments(sql) => verdict > 0

\* C3: validateReadOnly returns on every (well-formed) text whose forbidden
\* keywords all lie inside line comments or (nested) block comments.
C3_KeywordInCommentPasses ==
    verdict # -1 /\ WellFormed(sql) /\ KeywordsOnlyInComments(sql) => verdict = 0

\* C4: a queryReadOnly call that is over has released the client it acquired
\* exactly once (and none if it acquired none), on every path; so each pool's
\* count of checked-out clients is the number of calls still holding one.
C4_ReleasedExactlyOnce ==
    /\ \A r \in Req : \A i \in Subs(r) :
          LET s == req[r].q[i] IN
          /\ Terminal(s) =>
                s.rel = IF s.err \in {NotConnectedMsg, ConnectionFailure} THEN 0 ELSE 1
          /\ ~Terminal(s) => s.rel = 0
    /\ \A p \in PoolId :
          pools[p].out =
              Cardinality({c \in Req \X (1..(HealthFanOut + MaxSchemas)) :
                              /\ c[2] \in Subs(c[1])
                              /\ Holds(req[c[1]].q[c[2]])
                              /\ req[c[1]].q[c[2]].p = p})

\* C4, witness: a call whose statement failed and whose ROLLBACK failed too
\* is over, its client released once, and its pool has no client out.
C4_Witness ==
    \E r \in Req : \E i \in Subs(r) :
        /\ req[r].q[i].pc = "failed"
        /\ req[r].q[i].err = RollbackFailure
        /\ req[r].q[i].tx
        /\ req[r].q[i].rel = 1
        /\ pools[req[r].q[i].p].out = 0

\* C5: no client goes back to the pool with a transaction open on it.
C5_NoOpenTransactionAtRelease ==
    \A r \in Req : \A i \in Subs(r) :
        req[r].q[i].rel > 0 => ~req[r].q[i].relTx

\* C6: no queryReadOnly call is acquiring from, or running on, a pool whose
\* end() has been called: a query runs before the teardown of the old pool
\* starts, or against the new pool.
C6_NoQueryOnPoolBeingEnded ==
    \A r \in Req : \A i \in Subs(r) :
        req[r].q[i].pc = "acquire" \/ Holds(req[r].q[i])
        => pools[req[r].q[i].p].st = "live"

\* C7: once all connect and disconnect calls have returned, the only pool
\* that is not ended is the one the manager references, and end() was called
\* on no pool twice.
C7_OnePoolEndedOnce ==
    (\A r \in Req : req[r].pc \in {"idle", "returned"})
    => /\ \A p \in Created : pools[p].st # "ended" => p = pool
       /\ \A p \in Created : ~pools[p].twice

\* C8: when connect has returned the ConnectionFailure error (and no other
\* call is in flight), the manager is not connected.
C8_FailedConnectLeavesDisconnected ==
    \A r \in Req :
        /\ req[r].tool = "connect"
        /\ req[r].pc = "returned"
        /\ req[r].resp = errorResult(ConnectionFailure)
        /\ \A x \in Req \ {r} : req[x].pc = "idle"
        => ~isConnected /\ getConnectionInfo = "null"

\* C9: a data tool called while no pool exists returns the error response
\* with the NotConnected message.
C9_NotConnectedReported ==
    \A r \in Req :
        /\ req[r].tool \in DataTools
        /\ req[r].pc = "returned"
        /\ \E i \in Subs(r) : req[r].q[i].err = NotConnectedMsg
        => req[r].resp = errorResult(NotConnectedMsg)

\* C10: when a handler has returned its response, none of the request's
\* queryReadOnly calls still holds a client.
C10_NothingHeldAfterResponse ==
    \A r \in Req :
        req[r].pc = "returned" => \A i \in Subs(r) : ~Holds(req[r].q[i])

\* C11: database_health starts its four queryReadOnly calls together; it
\* reports success only when all four have returned, and as soon as one of
\* them has failed the call has failed with the error response (no report
\* built from the calls that succeeded).
C11_HealthAllOrNothing ==
    \A r \in Req :
        req[r].tool = "database_health"
        => /\ Len(req[r].q) = HealthFanOut
           /\ req[r].resp.kind = "ok" => \A i \in Subs(r) : req[r].q[i].pc = "done"
           /\ (\E i \in Subs(r) : req[r].q[i].pc = "failed")
              => req[r].pc = "returned" /\ req[r].resp.kind = "error"

\* database_health returned the error response although three of its four
\* calls returned rows
C11_Witness ==
    \E r \in Req :
        /\ req[r].tool = "database_health"
        /\ req[r].pc = "returned"
        /\ req[r].resp = errorResult(QueryFailure)
        /\ Cardinality({i \in Subs(r) : req[r].q[i].pc = "done"}) = HealthFanOut - 1

\* the texts an error response can carry
ErrorMessages ==
    {NotConnectedMsg, ForbiddenMsg, ExtensionMsg, ConnectionFailure,
     QueryFailure, RollbackFailure, EndTwice, TypeErrorMsg}

\* C12: a tool invocation has no payload until its handler returns, and then
\* exactly one: the success payload or the error payload carrying one
\* message; no exception leaves the handler, whatever the outcome (success,
\* forbidden SQL, not connected, database error, EXPLAIN result without a
\* plan row).
C12_OnePayloadNeverThrows ==
    \A r \in Req :
        req[r].tool # Overview
        => /\ req[r].pc # "returned" => req[r].resp = NoResp
           /\ req[r].pc = "returned"
              => \/ req[r].resp.kind = "ok"
                 \/ req[r].resp.kind = "error" /\ req[r].resp.text \in ErrorMessages

\* suggest_indexes got an EXPLAIN result without a row: the TypeError raised
\* on plan["Plan"] came back as the error payload
C12_Witness ==
    \E r \in Req :
        /\ req[r].tool = "suggest_indexes"
        /\ req[r].rows = "empty"
        /\ req[r].pc = "returned"
        /\ \A i \in Subs(r) : req[r].q[i].pc = "done"
        /\ req[r].resp = errorResult(TypeErrorMsg)

\* "sql with its trailing semicolon and whitespace removed", in both
\* readings: one semicolon with the whitespace around it, or every trailing
\* semicolon and whitespace character
RECURSIVE StripTrailing(_)
StripTrailing(s) ==
    IF s # <<>> /\ s[Len(s)] \in Whitespace \cup {";"}
    THEN StripTrailing(SubSeq(s, 1, Len(s) - 1)) ELSE s
TrailingRemoved(s) == {TrimEnd(StripSemicolon(TrimEnd(s))), StripTrailing(s)}

\* C13: for a text without leading whitespace: when it begins with SELECT
\* (in any case) and holds no LIMIT keyword, ensureLimit returns the text
\* without its trailing semicolon and whitespace, followed by " LIMIT N";
\* otherwise it returns the text without its trailing semicolon and
\* whitespace.
C13_EnsureLimitResult ==
    res # <<>> /\ arg.sql = TrimStart(arg.sql)
    => IF IsSelect(arg.sql) /\ ~HasLimit(arg.sql)
       THEN res[1] \in {c \o <<" ","L","I","M","I","T"," ">> \o DecStr(arg.limit) :
                           c \in TrailingRemoved(arg.sql)}
       ELSE res[1] \in TrailingRemoved(arg.sql)

\* C14: ensureLimit applied to its own result returns that result.
C14_EnsureLimitIdempotent ==
    Len(res) = 2 => res[2] = res[1]

\* ---------------------------------------------------------------- plans
\* The nodes of a plan, named by their path from the root (the child indices
\* followed), reading through an envelope wherever there is one.
RECURSIVE PathsOf(_)
PathsOf(plan) ==
    LET plans == Children(Unwrap(plan)) IN
    {<<>>} \cup UNION {{<<i>> \o p : p \in PathsOf(plans[i])} : i \in 1..Len(plans)}

RECURSIVE NodeAt(_, _)
NodeAt(plan, path) ==
    IF path = <<>> THEN Unwrap(plan)
    ELSE NodeAt(Children(Unwrap(plan))[Head(path)], Tail(path))

\* depth-first pre-order: a node before its descendants, the subtree of a
\* child before the subtrees of the children after it
RECURSIVE Before(_, _)
Before(p, q) ==
    /\ q # <<>>
    /\ \/ p = <<>>
       \/ Head(p) < Head(q)
       \/ Head(p) = Head(q) /\ Before(Tail(p), Tail(q))

\* the position of path p among the paths ps, in pre-order
Rank(p, ps) == Cardinality({q \in ps : Before(q, p)}) + 1

IsLeaf(plan) == Children(Unwrap(plan)) = <<>>

\* the rule table of the warnings: the measure a node type is judged by and
\* the value it has to exceed
WarnLimit(nodeType) ==
    IF nodeType = "Nested Loop" THEN 50000 ELSE 10000
ShouldWarn(n) ==
    \/ /\ NodeTypeOf(n) \in {"Seq Scan", "Nested Loop"}
       /\ NumberOr0(n, "Plan Rows") > WarnLimit(NodeTypeOf(n))
    \/ /\ NodeTypeOf(n) \in {"Sort", "Hash"}
       /\ NumberOr0(n, "Total Cost") > WarnLimit(NodeTypeOf(n))

\* the suggestions of the first rule are statements, those of the second
\* rule comments
IsStatement(s) == s.createStatement # <<>> /\ s.createStatement[1] = "C"
ScanOnes == SelectSeq(res.suggestions, IsStatement)
IsComment(s) == s.createStatement # <<>> /\ s.createStatement[1] = "-"
SortOnes == SelectSeq(res.suggestions, IsComment)

\* the plan of the example: a sequential scan of t, filter (user_id = 5),
\* 2000 estimated rows, schema public
ExamplePlan ==
    /\ IsLeaf(arg.plan)
    /\ NodeTypeOf(Unwrap(arg.plan)) = "Seq Scan"
    /\ Has(Unwrap(arg.plan), "Relation Name")
    /\ Has(Unwrap(arg.plan), "Filter")
    /\ Unwrap(arg.plan)["Filter"] = UserIdFilter
    /\ NumberOr0(Unwrap(arg.plan), "Plan Rows") = 2000
    /\ arg.schema = Public
ExampleStatement ==
    <<"C","R","E","A","T","E"," ","I","N","D","E","X"," ","i","d","x","_","t","_","u","s","e","r","_","i","d"," ","O","N"," ","p","u","b","l","i","c",".","t"," ","(","u","s","e","r","_","i","d",")",";">>

\* C15 (as stated): for the example plan suggestIndexes returns exactly one
\* suggestion, with columns ["user_id"], impact "medium" and the statement
\* CREATE INDEX idx_t_user_id ON public.t (user_id);
C15_ExampleMedium ==
    res.suggested /\ ExamplePlan
    => /\ Len(res.suggestions) = 1
       /\ res.suggestions[1].columns = <<<<"u","s","e","r","_","i","d">>>>
       /\ res.suggestions[1].impact = "medium"
       /\ res.suggestions[1].createStatement = ExampleStatement

\* C15 (amended): for the example plan suggestIndexes returns exactly one
\* suggestion, with columns ["user_id"], impact "low" (2000 rows are not
\* more than 10,000) and the statement
\* CREATE INDEX idx_t_user_id ON public.t (user_id);
C15_ExampleLow ==
    res.suggested /\ ExamplePlan
    => /\ Len(res.suggestions) = 1
       /\ res.suggestions[1].columns = <<<<"u","s","e","r","_","i","d">>>>
       /\ res.suggestions[1].impact = "low"
       /\ res.suggestions[1].createStatement = ExampleStatement

\* suggestIndexes has run on the example plan
C15_Witness ==
    res.suggested /\ ExamplePlan /\ Len(res.suggestions) = 1

\* C16: extractWarnings emits one warning for each node that exceeds the
\* limit of its type (Seq Scan: more than 10,000 rows, Nested Loop: more
\* than 50,000 rows, Sort and Hash: a total cost above 10,000) and none for
\* any other node: none at the limit, one at the limit plus one, never two
\* for a node, none for other node types.
C16_WarningIffAboveLimit ==
    res.explained
    => /\ Len(res.warnings) =
             Cardinality({p \in PathsOf(arg.plan) : ShouldWarn(NodeAt(arg.plan, p))})
       /\ IsLeaf(arg.plan)
          => /\ Len(res.warnings) <= 1
             /\ Len(res.warnings) = 1 <=> ShouldWarn(Unwrap(arg.plan))

\* a Seq Scan of 10,001 rows got its warning
C16_Witness ==
    /\ res.explained
    /\ IsLeaf(arg.plan)
    /\ NodeTypeOf(Unwrap(arg.plan)) = "Seq Scan"
    /\ NumberOr0(Unwrap(arg.plan), "Plan Rows") = 10001
    /\ Len(res.warnings) = 1

\* C17: for a single node, the first rule emits its suggestion exactly when
\* the node is a Seq Scan with a filter, more than 1000 estimated rows and
\* at least one column extracted from the filter; its impact is high above
\* 100,000 rows, medium above 10,000 up to 100,000, low above 1000 up to
\* 10,000.
C17_ScanRule ==
    res.suggested /\ IsLeaf(arg.plan)
    => LET n == Unwrap(arg.plan)
           rows == NumberOr0(n, "Plan Rows")
       IN  /\ Len(ScanOnes) <= 1
           /\ Len(ScanOnes) = 1
              <=> /\ NodeTypeOf(n) = "Seq Scan"
                  /\ Has(n, "Filter")
                  /\ rows > 1000
                  /\ extractColumnsFromFilter(n["Filter"]) # <<>>
           /\ Len(ScanOnes) = 1
              => /\ rows > 100000 => ScanOnes[1].impact = "high"
                 /\ rows > 10000 /\ rows <= 100000 => ScanOnes[1].impact = "medium"
                 /\ rows > 1000 /\ rows <= 10000 => ScanOnes[1].impact = "low"

\* a Seq Scan of 1001 rows with a filter naming a column got its suggestion
C17_Witness ==
    /\ res.suggested
    /\ IsLeaf(arg.plan)
    /\ NumberOr0(Unwrap(arg.plan), "Plan Rows") = 1001
    /\ Len(ScanOnes) = 1
    /\ ScanOnes[1].impact = "low"

\* every line of a text starts with "--" (a line ends where a `--` comment
\* of PostgreSQL ends: at a line feed or a carriage return)
EveryLineCommented(s) ==
    /\ Len(s) >= 2 /\ s[1] = "-" /\ s[2] = "-"
    /\ \A i \in 1..Len(s) :
          s[i] \in Newlines => i + 2 <= Len(s) /\ s[i + 1] = "-" /\ s[i + 2] = "-"
Contains(s, sub) ==
    \E i \in 1..(Len(s) - Len(sub) + 1) : SubSeq(s, i, i + Len(sub) - 1) = sub

\* C18: for a single node, the second rule emits its suggestion exactly when
\* the node is a Sort with a non-empty list of sort keys and more than 5,000
\* estimated rows; its impact is high above 50,000 rows and medium otherwise,
\* never low; its createStatement is a comment on every line and names the
\* table by the placeholder <table>.
C18_SortRule ==
    res.suggested /\ IsLeaf(arg.plan)
    => LET n == Unwrap(arg.plan)
           rows == NumberOr0(n, "Plan Rows")
       IN  /\ Len(SortOnes) <= 1
           /\ Len(SortOnes) = 1
              <=> /\ NodeTypeOf(n) = "Sort"
                  /\ Has(n, "Sort Key") /\ n["Sort Key"] # <<>>
                  /\ rows > 5000
           /\ Len(SortOnes) = 1
              => /\ SortOnes[1].impact = IF rows > 50000 THEN "high" ELSE "medium"
                 /\ EveryLineCommented(SortOnes[1].createStatement)
                 /\ Contains(SortOnes[1].createStatement,
                             <<".","<","t","a","b","l","e",">"," ","(">>)

\* C19: the walk of suggestIndexes examines the same nodes, in the same
\* order, as the walk of extractWarnings, wherever the plan has envelopes.
C19_SameNodesExamined ==
    res.explained /\ res.suggested
    => SuggestionsExamined(Unwrap(arg.plan)) = WarningsExamined(arg.plan)

\* C20: extractWarnings visits every node of the plan once, in depth-first
\* pre-order, below nodes that produced a warning as below the others: the
\* warnings are those of the nodes that exceed their limit, in pre-order.
C20_EveryNodeInPreOrder ==
    res.explained
    => LET all == PathsOf(arg.plan)
           warn == {p \in all : ShouldWarn(NodeAt(arg.plan, p))}
           seen == WarningsExamined(arg.plan)
       IN  /\ Len(seen) = Cardinality(all)
           /\ \A p \in all : seen[Rank(p, all)] = NodeAt(arg.plan, p)
           /\ Len(res.warnings) = Cardinality(warn)
           /\ \A p \in warn :
                 <<res.warnings[Rank(p, warn)]>> = NodeWarnings(NodeAt(arg.plan, p))

\* a plan where a node that warned has a child that warned too, after a
\* sibling subtree without any warning
C20_Witness ==
    /\ res.explained
    /\ Len(res.warnings) >= 3
    /\ \E p \in PathsOf(arg.plan) :
          /\ Len(p) = 2
          /\ ShouldWarn(NodeAt(arg.plan, p))
          /\ ShouldWarn(NodeAt(arg.plan, <<p[1]>>))
    /\ \E p \in PathsOf(arg.plan) : ~ShouldWarn(NodeAt(arg.plan, p))

\* the rules of the index suggestions, by node
MatchesRuleA(n) ==
    /\ NodeTypeOf(n) = "Seq Scan"
    /\ Has(n, "Filter")
    /\ NumberOr0(n, "Plan Rows") > 1000
    /\ extractColumnsFromFilter(n["Filter"]) # <<>>
MatchesRuleB(n) ==
    /\ NodeTypeOf(n) = "Sort"
    /\ Has(n, "Sort Key") /\ n["Sort Key"] # <<>>
    /\ NumberOr0(n, "Plan Rows") > 5000

\* C21: suggestIndexes returns one suggestion for each node of the plan that
\* matches Rule A or Rule B, whatever its ancestors matched and whether or
\* not another node gave the same table and columns, listed in pre-order.
C21_OneSuggestionPerMatch ==
    res.suggested
    => LET match == {p \in PathsOf(arg.plan) :
                        \/ MatchesRuleA(NodeAt(arg.plan, p))
                        \/ MatchesRuleB(NodeAt(arg.plan, p))}
       IN  /\ Len(res.suggestions) = Cardinality(match)
           /\ \A p \in match :
                 <<res.suggestions[Rank(p, match)]>> =
                     ScanSuggestions(NodeAt(arg.plan, p), arg.schema)
                     \o SortSuggestions(NodeAt(arg.plan, p), arg.schema)

\* C22: every suggestion of suggestIndexes names at least one column: a
\* Seq Scan whose filter yields no column and a Sort with an empty list of
\* sort keys give no suggestion.
C22_ColumnsNeverEmpty ==
    res.suggested
    => /\ \A i \in DOMAIN res.suggestions : Len(res.suggestions[i].columns) > 0
       /\ IsLeaf(arg.plan)
          => LET n == Unwrap(arg.plan) IN
             /\ /\ NodeTypeOf(n) = "Seq Scan"
                /\ Has(n, "Filter")
                /\ extractColumnsFromFilter(n["Filter"]) = <<>>
                => res.suggestions = <<>>
             /\ /\ NodeTypeOf(n) = "Sort"
                /\ Has(n, "Sort Key")
                /\ n["Sort Key"] = <<>>
                => res.suggestions = <<>>

\* a Seq Scan of 100,001 rows whose filter compares a function call got no
\* suggestion
C22_Witness ==
    /\ res.suggested
    /\ IsLeaf(arg.plan)
    /\ NodeTypeOf(Unwrap(arg.plan)) = "Seq Scan"
    /\ NumberOr0(Unwrap(arg.plan), "Plan Rows") = 100001
    /\ Has(Unwrap(arg.plan), "Filter")
    /\ Unwrap(arg.plan)["Filter"] # <<>>
    /\ extractColumnsFromFilter(Unwrap(arg.plan)["Filter"]) = <<>>
    /\ res.suggestions = <<>>

\* no name twice in a list
Unique(columns) ==
    \A i, j \in DOMAIN columns : columns[i] = columns[j] => i = j
EndsWith(s, tail) ==
    Len(s) >= Len(tail) /\ SubSeq(s, Len(s) - Len(tail) + 1, Len(s)) = tail

\* C23: in every suggestion no column name appears twice (for the second
\* rule also when two sort keys reduce to the same name), and the
\* createStatement lists exactly the columns, in their order.
C23_ColumnsUnique ==
    res.suggested
    => \A i \in DOMAIN res.suggestions :
          /\ Unique(res.suggestions[i].columns)
          /\ EndsWith(res.suggestions[i].createStatement,
                      <<" ", "(">> \o Join(res.suggestions[i].columns, <<",", " ">>)
                      \o <<")", ";">>)

\* C24: a queryReadOnly call that failed after it got its client (on BEGIN,
\* the statement or COMMIT) throws that failure, also when the ROLLBACK
\* failed.
C24_OriginalErrorPropagated ==
    \A r \in Req : \A i \in Subs(r) :
        req[r].q[i].pc = "failed" /\ req[r].q[i].rel > 0
        => req[r].q[i].err = QueryFailure

====
